---- MODULE Spec2Model ----
(***************************************************************************)
(* Model of app.py: the synthetic price-series generator (the nested loop  *)
(* over STOCKS and date_list), the sorted table and its export, the Dash   *)
(* set-up and the update_chart callback.                                   *)
(*                                                                         *)
(* A ticker is its position in the source's STOCKS literal (1 is           *)
(* 'RELIANCE.NS', 2 is 'TCS.NS', 3 is 'INFY.NS', ...).  A datetime is an   *)
(* instant counted in ticks of the clock.  The NumPy generator seeded with *)
(* 42 is a fixed but unknown sequence of words: the model reveals it word  *)
(* by word, so that a draw at a position already revealed returns what it  *)
(* returned before.                                                        *)
(***************************************************************************)
EXTENDS Integers, Sequences, FiniteSets

VARIABLES STOCKS, DAYS, base, date_list, rng, all_data, price, ti, di,
          df, xlsx, stock_options, selected_ticker, figure, prev, pc

vars == <<STOCKS, DAYS, base, date_list, rng, all_data, price, ti, di,
          df, xlsx, stock_options, selected_ticker, figure, prev, pc>>

----------------------------------------------------------------------------
(* Bounds of the model. *)

\* The run iterates over the first 1..MaxTickers entries of the STOCKS literal.
MaxTickers == 3
\* DAYS ranges over 1..MaxDays (the source sets 100).
MaxDays == 2
\* datetime.today() ranges over the instants 0..MaxClock.
MaxClock == 1
\* The ticks of the clock in a day.
TicksPerDay == 2
\* The generator's sequence of words repeats after Period words.
Period == 8

\* A word of the generator: 0 makes a draw return the least value of its
\* range, 1 the greatest.
Raw == {0, 1}
\* What stands for a word of the sequence not drawn yet: no word.
Unknown == Cardinality(Raw)

----------------------------------------------------------------------------
(* Values of the dropdown. *)

\* Python's None (nothing selected) and the empty string.
NoneValue == [kind |-> "None", ticker |-> 0]
EmptyString == [kind |-> "str", ticker |-> 0]
\* The name of STOCKS entry t; t = MaxTickers + 1 is a string that names no
\* ticker the run generates.
Name(t) == [kind |-> "str", ticker |-> t]
Selections == {NoneValue, EmptyString} \cup {Name(t) : t \in 1..(MaxTickers + 1)}

\* Python truthiness of a dropdown value: None and '' are falsy.
Falsy(v) == v.kind = "None" \/ v.ticker = 0

----------------------------------------------------------------------------
(* The STOCKS literal and the order of its strings. *)

\* The rank of each entry of the STOCKS literal in the lexicographic order of
\* the strings, which is the order sort_values gives the Ticker column.
TickerKey(t) == <<9, 12, 5, 3, 4, 8, 10, 7, 6, 1, 2, 11>>[t]

\* The ticker lists a run is given: the first n entries of the literal, in
\* the literal's order ('RELIANCE.NS', 'TCS.NS' stand in the order of the
\* strings, 'INFY.NS' after them does not).
TickerLists == {[i \in 1..n |-> i] : n \in 1..MaxTickers}

----------------------------------------------------------------------------
(* The random source. *)

\* Position p of the sequence falls on this word of the period.
Slot(p) == ((p - 1) % Period) + 1

\* The seeding left out: the process draws from wherever its generator stands.
seed_unseeded(r) == r

\* np.random.seed(42): the sequence of the seed, read from its start.
seed(r) == [r EXCEPT !.pos = 0]

\* The outcomes of the next n draws: each word already revealed is returned
\* again, each other word is any word.
Draws(n) ==
    {us \in [1..n -> Raw] :
        \A k \in 1..n :
            /\ rng.stream[Slot(rng.pos + k)] # Unknown
                    => us[k] = rng.stream[Slot(rng.pos + k)]
            /\ \A j \in 1..(k - 1) :
                    Slot(rng.pos + j) = Slot(rng.pos + k) => us[j] = us[k]}

\* The random source after the n draws us.
Advance(us) ==
    [stream |-> [s \in 1..Period |->
                    IF \E k \in DOMAIN us : Slot(rng.pos + k) = s
                    THEN us[CHOOSE k \in DOMAIN us : Slot(rng.pos + k) = s]
                    ELSE rng.stream[s]],
     pos |-> rng.pos + Len(us)]

\* np.random.randint(low, high) for the word u: low inclusive, high exclusive.
randint(u, low, high) == IF u = 0 THEN low ELSE high - 1

\* np.random.normal(loc, scale) for the word u, one deviation either side.
normal(u, loc, scale) == IF u = 0 THEN loc - scale ELSE loc + scale

----------------------------------------------------------------------------
(* The generator. *)

\* timedelta(days=x), in ticks.
timedelta(x) == x * TicksPerDay

\* The list without its [::-1]: newest first.
date_list_unreversed(b, days) == [x \in 1..days |-> b - timedelta(x - 1)]

\* date_list: DAYS instants a day apart, oldest first, ending at base.
date_list_of(b, days) ==
    LET backward == [x \in 1..days |-> b - timedelta(x - 1)]
    IN  [i \in 1..days |-> backward[days + 1 - i]]

\* price set to 1000 once, before the loop over STOCKS, and only offset at
\* the start of each ticker.
initial_price_carried(carried, u) ==
    (IF carried = 0 THEN 1000 ELSE carried) + randint(u, -10, 10)

\* price at the start of a ticker; the value price held before is not read.
initial_price(carried, u) == 1000 + randint(u, -10, 10)

open_price(p, u) == p + randint(u, -20, 20)
high_price(open, u) == open + randint(u, 0, 20)

\* The low offset added instead of subtracted.
low_price_added(open, u) == open + randint(u, 0, 20)

low_price(open, u) == open - randint(u, 0, 20)

\* The close drawn with the range of the open.
actual_close_wide(open, u) == open + randint(u, -20, 20)

actual_close(open, u) == open + randint(u, -15, 15)
predicted_close(close, u) == close + normal(u, 0, 10)

\* The record one iteration of the inner loop appends, from the five draws us.
PriceBar(dt, ticker, p, us) ==
    LET o == open_price(p, us[1])
        c == actual_close(o, us[4])
    IN  [Date |-> dt, Ticker |-> ticker, Open |-> o,
         High |-> high_price(o, us[2]), Low |-> low_price(o, us[3]),
         Actual_Close |-> c, Predicted_Close |-> predicted_close(c, us[5])]

\* price carried on from the open instead of the close.
next_price_open(bar) == bar.Open

\* price after an iteration of the inner loop.
next_price(bar) == bar.Actual_Close

----------------------------------------------------------------------------
(* The table. *)

\* Row a comes no later than row b in the order of the columns by.
NotAfter(a, b, by) ==
    IF by = <<"Ticker", "Date">>
    THEN \/ TickerKey(a.Ticker) < TickerKey(b.Ticker)
         \/ a.Ticker = b.Ticker /\ a.Date <= b.Date
    ELSE a.Date <= b.Date

\* Row r put into the sorted rows, after the rows that come no later.
RECURSIVE Insert(_, _, _)
Insert(rows, r, by) ==
    IF rows = <<>> THEN <<r>>
    ELSE IF NotAfter(Head(rows), r, by)
         THEN <<Head(rows)>> \o Insert(Tail(rows), r, by)
         ELSE <<r>> \o rows

\* sort_values without inplace=True: the rows stay as they were.
sort_values_not_inplace(rows, by) == rows

\* DataFrame.sort_values(by, inplace=True).
RECURSIVE sort_values(_, _)
sort_values(rows, by) ==
    IF rows = <<>> THEN <<>>
    ELSE Insert(sort_values(SubSeq(rows, 1, Len(rows) - 1), by),
                rows[Len(rows)], by)

\* pd.to_datetime of a Date cell: the column already holds datetimes, and
\* each keeps its value.
to_datetime(d) == d

\* Series.unique(): the values in order of first appearance.
RECURSIVE unique(_)
unique(s) ==
    IF s = <<>> THEN <<>>
    ELSE LET init == unique(SubSeq(s, 1, Len(s) - 1))
             last == s[Len(s)]
         IN  IF \E i \in DOMAIN init : init[i] = last THEN init
             ELSE Append(init, last)

Column(rows, f) == [i \in DOMAIN rows |-> rows[i][f]]

----------------------------------------------------------------------------
(* The callback. *)

NoFigure == [data |-> <<>>, title |-> NoneValue, called |-> FALSE]

\* The two traces of a chart of the rows: the candlestick and the line.
Traces(rows) ==
    <<[x |-> Column(rows, "Date"), open |-> Column(rows, "Open"),
       high |-> Column(rows, "High"), low |-> Column(rows, "Low"),
       close |-> Column(rows, "Actual_Close")],
      [x |-> Column(rows, "Date"), y |-> Column(rows, "Predicted_Close")]>>

\* update_chart without its first two lines: a falsy value is filtered on
\* like any other.
update_chart_unguarded(table, sel) ==
    LET Chosen(r) == Name(r.Ticker) = sel
        df_filtered == sort_values(SelectSeq(table, Chosen), <<"Date">>)
    IN  [figure |-> [data |-> Traces(df_filtered), title |-> sel,
                     called |-> TRUE],
         df |-> table]

\* update_chart sorting the module's df by Date before it filters, instead
\* of sorting the filtered copy.
update_chart_inplace(table, sel) ==
    IF Falsy(sel)
    THEN [figure |-> [data |-> <<>>, title |-> NoneValue, called |-> TRUE],
          df |-> table]
    ELSE LET Chosen(r) == Name(r.Ticker) = sel
             sorted == sort_values(table, <<"Date">>)
         IN  [figure |-> [data |-> Traces(SelectSeq(sorted, Chosen)),
                          title |-> sel, called |-> TRUE],
              df |-> sorted]

\* update_chart(selected_ticker): the figure it returns, and the module's df
\* when it returns.
update_chart(table, sel) ==
    IF Falsy(sel)
    THEN [figure |-> [data |-> <<>>, title |-> NoneValue, called |-> TRUE],
          df |-> table]
    ELSE LET Chosen(r) == Name(r.Ticker) = sel
             df_filtered == sort_values(SelectSeq(table, Chosen), <<"Date">>)
         IN  [figure |-> [data |-> Traces(df_filtered), title |-> sel,
                          called |-> TRUE],
              df |-> table]

----------------------------------------------------------------------------
(* The program. *)

NoRun == [ran |-> FALSE, DAYS |-> 0, base |-> 0, all_data |-> <<>>]

\* The state of a process at the top of the generation loop.
Start(stocks, days, b, stream, before) ==
    /\ STOCKS = stocks
    /\ DAYS = days
    /\ base = b
    /\ date_list = date_list_of(b, days)
    /\ rng = seed([stream |-> stream, pos |-> 0])
    /\ all_data = <<>>
    /\ price = 0
    /\ ti = 0
    /\ di = 0
    /\ df = <<>>
    /\ xlsx = <<>>
    /\ stock_options = <<>>
    /\ selected_ticker = NoneValue
    /\ figure = NoFigure
    /\ prev = before
    /\ pc = "outer"

Init ==
    \E stocks \in TickerLists, days \in 1..MaxDays, b \in 0..MaxClock :
        Start(stocks, days, b, [s \in 1..Period |-> Unknown], NoRun)

\* for ticker in STOCKS: the next ticker's starting price.
GenTicker ==
    /\ pc = "outer"
    /\ ti < Len(STOCKS)
    /\ \E us \in Draws(1) :
        /\ price' = initial_price(price, us[1])
        /\ rng' = Advance(us)
    /\ ti' = ti + 1
    /\ di' = 0
    /\ pc' = IF Len(date_list) = 0 THEN "outer" ELSE "inner"
    /\ UNCHANGED <<STOCKS, DAYS, base, date_list, all_data, df, xlsx,
                   stock_options, selected_ticker, figure, prev>>

\* for dt in date_list: one record appended, price carried on.
GenDay ==
    /\ pc = "inner"
    /\ di < Len(date_list)
    /\ \E us \in Draws(5) :
        LET bar == PriceBar(date_list[di + 1], STOCKS[ti], price, us)
        IN  /\ all_data' = Append(all_data, bar)
            /\ price' = next_price(bar)
            /\ rng' = Advance(us)
    /\ di' = di + 1
    /\ pc' = IF di + 1 = Len(date_list) THEN "outer" ELSE "inner"
    /\ UNCHANGED <<STOCKS, DAYS, base, date_list, ti, df, xlsx,
                   stock_options, selected_ticker, figure, prev>>

\* df = pd.DataFrame(all_data); df.sort_values(['Ticker', 'Date'], inplace=True).
BuildTable ==
    /\ pc = "outer"
    /\ ti = Len(STOCKS)
    /\ df' = sort_values(all_data, <<"Ticker", "Date">>)
    /\ pc' = "export"
    /\ UNCHANGED <<STOCKS, DAYS, base, date_list, rng, all_data, price, ti,
                   di, xlsx, stock_options, selected_ticker, figure, prev>>

\* df.to_excel(...): xlsx is the rows the file is written from.
Export ==
    /\ pc = "export"
    /\ xlsx' = df
    /\ pc' = "setup"
    /\ UNCHANGED <<STOCKS, DAYS, base, date_list, rng, all_data, price, ti,
                   di, df, stock_options, selected_ticker, figure, prev>>

\* app = Dash(...); df['Date'] = pd.to_datetime(df['Date']); stock_options.
Setup ==
    /\ pc = "setup"
    /\ df' = [i \in DOMAIN df |-> [df[i] EXCEPT !.Date = to_datetime(@)]]
    /\ stock_options' = unique(Column(df', "Ticker"))
    /\ pc' = "serve"
    /\ UNCHANGED <<STOCKS, DAYS, base, date_list, rng, all_data, price, ti,
                   di, xlsx, selected_ticker, figure, prev>>

\* The dropdown's value changes and Dash calls update_chart with it.
UpdateChart ==
    /\ pc = "serve"
    /\ \E sel \in Selections :
        LET r == update_chart(df, sel)
        IN  /\ selected_ticker' = sel
            /\ figure' = r.figure
            /\ df' = r.df
    /\ UNCHANGED <<STOCKS, DAYS, base, date_list, rng, all_data, price, ti,
                   di, xlsx, stock_options, prev, pc>>

Next == GenTicker \/ GenDay \/ BuildTable \/ Export \/ Setup \/ UpdateChart

Spec == Init /\ [][Next]_vars

\* The script is stopped and run again, at the same tick or a later one, with
\* the same STOCKS and any DAYS: a new process, whose np.random.seed(42)
\* starts the same sequence again.  prev keeps the records of the first run,
\* for the two runs to be compared.
Rerun ==
    /\ pc = "serve"
    /\ ~prev.ran
    /\ \E days \in 1..MaxDays, b \in base..MaxClock :
        /\ DAYS' = days
        /\ base' = b
        /\ date_list' = date_list_of(b, days)
    /\ rng' = seed(rng)
    /\ prev' = [ran |-> TRUE, DAYS |-> DAYS, base |-> base,
                all_data |-> all_data]
    /\ all_data' = <<>>
    /\ price' = 0
    /\ ti' = 0
    /\ di' = 0
    /\ df' = <<>>
    /\ xlsx' = <<>>
    /\ stock_options' = <<>>
    /\ selected_ticker' = NoneValue
    /\ figure' = NoFigure
    /\ pc' = "outer"
    /\ UNCHANGED STOCKS

\* Two runs of the script, the first at tick 0; the callback, which leaves
\* all_data alone, is not called in between.
InitRerun == Init /\ base = 0

NextRerun == GenTicker \/ GenDay \/ BuildTable \/ Export \/ Setup \/ Rerun

SpecRerun == InitRerun /\ [][NextRerun]_vars

----------------------------------------------------------------------------
(* What the properties below speak of. *)

\* The generation loop has run to its end.
Generated ==
    pc \in {"export", "setup", "serve"} \/ (pc = "outer" /\ ti = Len(STOCKS))

\* The rows of a ticker, in the order they stand in rows.
RowsOf(rows, t) ==
    LET OfTicker(r) == r.Ticker = t
    IN  SelectSeq(rows, OfTicker)

\* How many times row r stands in rows.
Count(rows, r) == Cardinality({i \in DOMAIN rows : rows[i] = r})

\* The place in all_data of record i of the k-th ticker of STOCKS.
Index(k, i, days) == (k - 1) * days + i

\* The word of the generator at position p of its sequence.
StreamAt(p) == rng.stream[Slot(p)]

\* The position of the draw that gives the open of record i of the k-th
\* ticker: each ticker draws once, then five times a day.
OpenDrawPos(k, i) == (k - 1) * (1 + 5 * DAYS) + 1 + 5 * (i - 1) + 1

\* Two records agree on the ticker and on the five prices.
SamePrices(a, b) ==
    /\ a.Ticker = b.Ticker
    /\ a.Open = b.Open
    /\ a.High = b.High
    /\ a.Low = b.Low
    /\ a.Actual_Close = b.Actual_Close
    /\ a.Predicted_Close = b.Predicted_Close

Min(a, b) == IF a <= b THEN a ELSE b

----------------------------------------------------------------------------
(* C1 *)

\* C1: once generation is complete, all_data holds Len(STOCKS) * DAYS
\* records, exactly DAYS of them for each ticker of STOCKS, and the dates of
\* a ticker, in the order emitted, go up by exactly one day from one record
\* to the next and end at base.
C1_SeriesShape ==
    Generated =>
        /\ Len(all_data) = Len(STOCKS) * DAYS
        /\ \A k \in DOMAIN STOCKS :
            LET series == RowsOf(all_data, STOCKS[k])
            IN  /\ Len(series) = DAYS
                /\ \A i \in 1..(DAYS - 1) :
                        series[i + 1].Date = series[i].Date + timedelta(1)
                /\ series[DAYS].Date = base

\* Two tickers of two days each were generated.
C1_Witness ==
    /\ Generated
    /\ Len(STOCKS) = 2
    /\ DAYS = 2
    /\ Len(all_data) = 4
    /\ all_data[3].Date = base - timedelta(1)
    /\ all_data[4].Date = base

----------------------------------------------------------------------------
(* C2 *)

\* C2: every record emitted has High >= Open and Low <= Open, with
\* High - Open and Open - Low both in 0..19, whatever was drawn.
C2_HighLowAroundOpen ==
    \A i \in DOMAIN all_data :
        /\ all_data[i].High >= all_data[i].Open
        /\ all_data[i].Low <= all_data[i].Open
        /\ all_data[i].High - all_data[i].Open \in 0..19
        /\ all_data[i].Open - all_data[i].Low \in 0..19

\* One record has the greatest high offset and the least low offset, another
\* the reverse.
C2_Witness ==
    \E i, j \in DOMAIN all_data :
        /\ all_data[i].High = all_data[i].Open + 19
        /\ all_data[i].Low = all_data[i].Open
        /\ all_data[j].High = all_data[j].Open
        /\ all_data[j].Low = all_data[j].Open - 19

----------------------------------------------------------------------------
(* C3 *)

\* C3: for every record of a ticker but its first, the open is the
\* Actual_Close of the record before it, of the same ticker, plus the outcome
\* in -20..19 of the record's own first draw: nothing else enters it.
C3_OpenFollowsClose ==
    \A k \in DOMAIN STOCKS : \A i \in 2..DAYS :
        Index(k, i, DAYS) <= Len(all_data) =>
            LET cur == all_data[Index(k, i, DAYS)]
                before == all_data[Index(k, i, DAYS) - 1]
            IN  /\ cur.Ticker = STOCKS[k]
                /\ before.Ticker = STOCKS[k]
                /\ cur.Open - before.Actual_Close \in -20..19
                /\ cur.Open = before.Actual_Close
                        + randint(StreamAt(OpenDrawPos(k, i)), -20, 20)

\* The second ticker's second record opened 19 above a close that was not
\* the open, the high or the low of the record before.
C3_Witness ==
    /\ Len(STOCKS) = 2
    /\ DAYS = 2
    /\ Len(all_data) = 4
    /\ all_data[4].Open = all_data[3].Actual_Close + 19
    /\ all_data[3].Actual_Close # all_data[3].Open
    /\ all_data[3].Actual_Close # all_data[3].High
    /\ all_data[3].Actual_Close # all_data[3].Low

----------------------------------------------------------------------------
(* C6 *)

\* C6: price starts every ticker between 990 and 1009, so the first record of
\* every ticker, the first or a later one, opens between 970 and 1028.
C6_PriceResets ==
    /\ (pc = "inner" /\ di = 0) => price \in 990..1009
    /\ \A k \in DOMAIN STOCKS :
        Index(k, 1, DAYS) <= Len(all_data) =>
            /\ all_data[Index(k, 1, DAYS)].Ticker = STOCKS[k]
            /\ all_data[Index(k, 1, DAYS)].Open \in 970..1028

\* The first ticker ended on a close above 1028 and the second ticker's first
\* record is out.
C6_Witness ==
    /\ ti = 2
    /\ Len(all_data) = DAYS + 1
    /\ all_data[DAYS].Actual_Close > 1028
    /\ all_data[DAYS].Ticker # all_data[DAYS + 1].Ticker

----------------------------------------------------------------------------
(* C7 *)

\* C7: the exported rows are the generated records, each as many times as it
\* was generated, ordered by the Ticker string and then by Date, both
\* ascending.
C7_ExportSorted ==
    pc \in {"setup", "serve"} =>
        /\ Len(xlsx) = Len(all_data)
        /\ \A i \in DOMAIN all_data :
                Count(xlsx, all_data[i]) = Count(all_data, all_data[i])
        /\ \A i \in DOMAIN xlsx :
                Count(xlsx, xlsx[i]) = Count(all_data, xlsx[i])
        /\ \A i \in 1..(Len(xlsx) - 1) :
                \/ TickerKey(xlsx[i].Ticker) < TickerKey(xlsx[i + 1].Ticker)
                \/ /\ xlsx[i].Ticker = xlsx[i + 1].Ticker
                   /\ xlsx[i].Date < xlsx[i + 1].Date

\* 'RELIANCE.NS', 'TCS.NS' and 'INFY.NS' were generated in this order, two
\* days each, and exported with 'INFY.NS' first and 'TCS.NS' last.
C7_Witness ==
    /\ pc = "setup"
    /\ STOCKS = <<1, 2, 3>>
    /\ DAYS = 2
    /\ all_data[1].Ticker = 1
    /\ all_data[6].Ticker = 3
    /\ xlsx[1].Ticker = 3
    /\ xlsx[3].Ticker = 1
    /\ xlsx[6].Ticker = 2
    /\ xlsx[1].Date < xlsx[2].Date

----------------------------------------------------------------------------
(* C8 *)

\* C8: whatever the value, update_chart returns a figure: with nothing
\* selected or the empty string one without data; otherwise one with two
\* traces holding the records generated for that ticker in ascending date
\* order, DAYS of them for a ticker of the table and none for any other.
C8_UpdateChartTotal ==
    (pc = "serve" /\ figure.called) =>
        IF Falsy(selected_ticker)
        THEN figure.data = <<>>
        ELSE LET series == RowsOf(all_data, selected_ticker.ticker)
                 present == \E k \in DOMAIN STOCKS :
                                STOCKS[k] = selected_ticker.ticker
             IN  /\ Len(figure.data) = 2
                 /\ figure.data = Traces(series)
                 /\ Len(figure.data[1].x) = IF present THEN DAYS ELSE 0
                 /\ Len(figure.data[2].y) = IF present THEN DAYS ELSE 0
                 /\ \A i \in 1..(Len(figure.data[1].x) - 1) :
                        figure.data[1].x[i] < figure.data[1].x[i + 1]

\* A string that names no ticker of the table was selected and a chart of two
\* traces without points came back.
C8_Witness ==
    /\ pc = "serve"
    /\ figure.called
    /\ ~Falsy(selected_ticker)
    /\ \A k \in DOMAIN STOCKS : STOCKS[k] # selected_ticker.ticker
    /\ Len(figure.data) = 2
    /\ figure.data[1].x = <<>>
    /\ figure.data[2].y = <<>>

----------------------------------------------------------------------------
(* C9 *)

\* C9: once generated, the records of all_data are never changed, and once
\* df is built from them and sorted, no step changes df: not to_excel, not
\* the set-up, not a call of update_chart with any value.
C9_TableNeverMutated ==
    [][/\ Generated => (all_data' = all_data)
       /\ (pc \in {"export", "setup", "serve"}) => (df' = df)]_vars

\* update_chart has charted a ticker of a table of two tickers of two days,
\* and df still is what was exported.
C9_Witness ==
    /\ pc = "serve"
    /\ figure.called
    /\ ~Falsy(selected_ticker)
    /\ Len(STOCKS) = 2
    /\ DAYS = 2
    /\ Len(figure.data) = 2
    /\ Len(figure.data[1].x) = 2
    /\ df = xlsx
    /\ Len(df) = 4

----------------------------------------------------------------------------
(* C10 *)

\* C10: Actual_Close - Open is in -15..14 for every record; the records
\* reached by C10_Witness show that Low <= Actual_Close <= High is no
\* invariant.
C10_CloseAroundOpen ==
    \A i \in DOMAIN all_data :
        all_data[i].Actual_Close - all_data[i].Open \in -15..14

\* One record closed above its high and another below its low.
C10_Witness ==
    \E i, j \in DOMAIN all_data :
        /\ all_data[i].Actual_Close > all_data[i].High
        /\ all_data[j].Actual_Close < all_data[j].Low

----------------------------------------------------------------------------
(* C4 *)

\* C4, as claimed: a second run with the same STOCKS and the same DAYS emits
\* the same records as the run before, Date included.
C4_SameRecords ==
    (prev.ran /\ Generated /\ DAYS = prev.DAYS) => all_data = prev.all_data

\* C4, amended: a second run with the same STOCKS and the same DAYS emits as
\* many records, in the same order, with the same ticker and the same five
\* prices; each Date is as far from the run's own base as in the run before,
\* so the records are equal when, and only when, the two runs read the same
\* base.
C4_SameRecordsFromBase ==
    (prev.ran /\ Generated /\ DAYS = prev.DAYS) =>
        /\ Len(all_data) = Len(prev.all_data)
        /\ \A i \in DOMAIN all_data :
            /\ SamePrices(all_data[i], prev.all_data[i])
            /\ all_data[i].Date - base = prev.all_data[i].Date - prev.base
        /\ (base = prev.base) <=> (all_data = prev.all_data)

\* Two tickers of two days were generated again at a later tick.
C4_Witness ==
    /\ prev.ran
    /\ Generated
    /\ DAYS = prev.DAYS
    /\ base # prev.base
    /\ Len(all_data) = 4
    /\ Len(prev.all_data) = 4

----------------------------------------------------------------------------
(* C5 *)

\* C5, as claimed, read on the ticker and the prices alone: after a run with
\* another DAYS, every ticker's records of the shorter run have the prices of
\* the records at the same places among that ticker's records of the longer.
C5_EveryTickerStable ==
    (prev.ran /\ Generated /\ DAYS # prev.DAYS) =>
        \A k \in DOMAIN STOCKS : \A i \in 1..Min(DAYS, prev.DAYS) :
            SamePrices(all_data[Index(k, i, DAYS)],
                       prev.all_data[Index(k, i, prev.DAYS)])

\* C5, amended: after a run with another DAYS, the records of the first
\* ticker of STOCKS have, place by place up to the shorter DAYS, the same
\* prices in both runs; record i of a run is dated DAYS - i days before the
\* run's base, so equal places are dated differently.
C5_FirstTickerStable ==
    (prev.ran /\ DAYS # prev.DAYS) =>
        \A i \in 1..Min(Min(DAYS, prev.DAYS), Len(all_data)) :
            /\ SamePrices(all_data[i], prev.all_data[i])
            /\ all_data[i].Ticker = STOCKS[1]
            /\ all_data[i].Date = base - timedelta(DAYS - i)
            /\ prev.all_data[i].Date = prev.base - timedelta(prev.DAYS - i)
            /\ all_data[i].Date - base # prev.all_data[i].Date - prev.base

\* Two tickers were generated with one day and then with two, and the second
\* ticker's first record came out with other prices.
C5_Witness ==
    /\ prev.ran
    /\ Generated
    /\ Len(STOCKS) = 2
    /\ prev.DAYS = 1
    /\ DAYS = 2
    /\ SamePrices(all_data[1], prev.all_data[1])
    /\ all_data[3].Ticker = prev.all_data[2].Ticker
    /\ ~SamePrices(all_data[3], prev.all_data[2])

====
